---- MODULE Spec2Model ----
(***************************************************************************)
(* Model of evaluate/run_eval.py: the prompt-template parser               *)
(* (parse_prompt_file), the judge client (evaluate_single_item) and the    *)
(* evaluation driver (main).                                               *)
(*                                                                         *)
(* Strings are sequences of one-character strings.  Values that Python     *)
(* may hold as None are option records [some, v].  JSON values returned by *)
(* the judge are records [t, v] with t the JSON type; numbers are kept in  *)
(* tenths (Scale) so that 4.5 is representable.                            *)
(***************************************************************************)
EXTENDS Integers, Sequences, FiniteSets, TLC

VARIABLES
    pc,            \* position of main(): start, load_data, loop, awaiting, done, aborted, crashed
    prompt_file,   \* the file PROMPT_FILE on disk: [exists, lines]
    input_file,    \* the file args.input_file on disk: [ok, items]
    prompts_map,   \* main's prompts_map
    data,          \* main's data
    idx,           \* 1-based position of the for loop of main in data
    results,       \* main's results list
    final_prompt,  \* the rendered prompt of the call being awaited
    calls,         \* log of the remote calls issued: [item, outcome] in order of issue
    output_file    \* the file args.output_file on disk: NoReport or the report

vars == <<pc, prompt_file, input_file, prompts_map, data, idx, results,
          final_prompt, calls, output_file>>

----------------------------------------------------------------------------
(* Bounds of the model *)

MaxItems == 3      \* longest input array
MaxLines == 3      \* longest prompt file, in lines
MaxPieces == 4     \* longest template, in pieces, of the rendering inputs

----------------------------------------------------------------------------
(* Python values *)

None == [some |-> FALSE, v |-> <<>>]
Some(x) == [some |-> TRUE, v |-> x]

\* dict.get(k): None when the key is absent
Get(d, k) == IF k \in DOMAIN d THEN Some(d[k]) ELSE None

\* dict.get(k, ''): the empty string when the key is absent
GetOrEmpty(d, k) == IF k \in DOMAIN d THEN d[k] ELSE <<>>

EmptyDict == [k \in {} |-> <<>>]

\* d[k] = v
DictSet(d, k, v) == [x \in (DOMAIN d) \cup {k} |-> IF x = k THEN v ELSE d[x]]

Scale == 10

JNum(tenths) == [t |-> "num", v |-> tenths]
JBool(b) == [t |-> "bool", v |-> IF b THEN 1 ELSE 0]
JStr == [t |-> "str", v |-> 0]
JNull == [t |-> "null", v |-> 0]

\* isinstance(x, (int, float)): bool is a subclass of int
IsIntOrFloat(x) == x.t \in {"num", "bool"}

\* the value a score has in sum(): True is 1, False is 0
PyNumber(x) == IF x.t = "bool" THEN x.v * Scale ELSE x.v

----------------------------------------------------------------------------
(* String functions *)

NL == "\n"
Whitespace == {" ", NL}
\* ";" stands for the ideographic comma U+3001
Seps == {",", ";"}

IsSubstr(t, s) ==
    \E k \in 0..(Len(s) - Len(t)) : SubSeq(s, k + 1, k + Len(t)) = t

\* str.strip()
RECURSIVE lstrip(_)
lstrip(s) ==
    IF s # <<>> /\ Head(s) \in Whitespace THEN lstrip(Tail(s)) ELSE s

RECURSIVE rstrip(_)
rstrip(s) ==
    IF s # <<>> /\ s[Len(s)] \in Whitespace
    THEN rstrip(SubSeq(s, 1, Len(s) - 1)) ELSE s

strip(s) == rstrip(lstrip(s))

\* str.replace(old, new): the non-overlapping occurrences, left to right
RECURSIVE replace(_, _, _)
replace(s, old, new) ==
    IF Len(s) < Len(old) THEN s
    ELSE IF SubSeq(s, 1, Len(old)) = old
         THEN new \o replace(SubSeq(s, Len(old) + 1, Len(s)), old, new)
         ELSE <<Head(s)>> \o replace(Tail(s), old, new)

\* re.split of a header's names on the comma and the ideographic comma
RECURSIVE re_split_names(_)
re_split_names(s) ==
    IF \A k \in 1..Len(s) : s[k] \notin Seps THEN <<s>>
    ELSE LET k == CHOOSE k \in 1..Len(s) :
                      s[k] \in Seps /\ \A j \in 1..(k - 1) : s[j] \notin Seps
         IN <<SubSeq(s, 1, k - 1)>> \o re_split_names(SubSeq(s, k + 1, Len(s)))

----------------------------------------------------------------------------
(* parse_prompt_file                                                       *)
(* A prompt file is a sequence of lines [hdr, text]: hdr says the line     *)
(* starts with '# type' and whitespace, text is the rest of the line       *)
(* (non-blank for a header, as the regex requires).                        *)

\* re.split(r'^# type\s+(.+)$', content, flags=re.MULTILINE):
\* <<text before the first header, names, body, names, body, ...>>
RECURSIVE re_split_headers(_)
re_split_headers(lines) ==
    IF lines = <<>> THEN << <<>> >>
    ELSE LET rest == re_split_headers(Tail(lines)) IN
         IF Head(lines).hdr
         THEN << <<>>, Head(lines).text, <<NL>> \o Head(rest) >> \o Tail(rest)
         ELSE << Head(lines).text \o <<NL>> \o Head(rest) >> \o Tail(rest)

\* task_types = [t.strip() for t in re.split(..., task_types_raw)]
task_types_of(raw) ==
    LET parts == re_split_names(strip(raw))
    IN [k \in 1..Len(parts) |-> strip(parts[k])]

\* for t in task_types: prompts[t] = prompt_content
RECURSIVE assign_all(_, _, _, _)
assign_all(prompts, task_types, k, prompt_content) ==
    IF k > Len(task_types) THEN prompts
    ELSE assign_all(DictSet(prompts, task_types[k], prompt_content),
                    task_types, k + 1, prompt_content)

\* for i in range(1, len(sections), 2) (i is 1-based here: 2, 4, ...)
RECURSIVE parse_sections(_, _, _)
parse_sections(sections, i, prompts) ==
    IF i > Len(sections) THEN prompts
    ELSE parse_sections(sections, i + 2,
             assign_all(prompts, task_types_of(sections[i]), 1,
                        strip(sections[i + 1])))

\* parse_prompt_file with the first header naming a task type winning
RECURSIVE assign_all_first(_, _, _, _)
assign_all_first(prompts, task_types, k, prompt_content) ==
    IF k > Len(task_types) THEN prompts
    ELSE assign_all_first(
             IF task_types[k] \in DOMAIN prompts THEN prompts
             ELSE DictSet(prompts, task_types[k], prompt_content),
             task_types, k + 1, prompt_content)

RECURSIVE parse_sections_first(_, _, _)
parse_sections_first(sections, i, prompts) ==
    IF i > Len(sections) THEN prompts
    ELSE parse_sections_first(sections, i + 2,
             assign_all_first(prompts, task_types_of(sections[i]), 1,
                              strip(sections[i + 1])))

parse_prompt_file_first(lines) ==
    parse_sections_first(re_split_headers(lines), 2, EmptyDict)

parse_prompt_file(lines) ==
    parse_sections(re_split_headers(lines), 2, EmptyDict)

----------------------------------------------------------------------------
(* evaluate_single_item: rendering                                         *)
(* The placeholder tokens '{{question}}', '{{reference_answer}}' and       *)
(* '{{model_answer}}' are written {q}, {r} and {m}.                        *)

QTok == <<"{", "q", "}">>
RTok == <<"{", "r", "}">>
MTok == <<"{", "m", "}">>
Tokens == {QTok, RTok, MTok}

\* the chain of replace calls without its last link
fill_template_short(item, prompt_template) ==
    replace(replace(prompt_template,
                    QTok, GetOrEmpty(item, "question")),
            RTok, GetOrEmpty(item, "reference_answer"))

\* str() of a text is the text; only text fields are modelled
fill_template(item, prompt_template) ==
    replace(replace(replace(prompt_template,
                            QTok, GetOrEmpty(item, "question")),
                    RTok, GetOrEmpty(item, "reference_answer")),
            MTok, GetOrEmpty(item, "model_answer"))

----------------------------------------------------------------------------
(* evaluate_single_item: the call and its outcomes *)

ReasoningText == <<"o", "k">>

\* the JSON objects the judge may reply with: result_json.get('score') and
\* result_json.get('reasoning'), JNull and None when the field is absent
ObjectReplies ==
    {[score |-> s, reasoning |-> Some(ReasoningText)] :
         s \in {JNum(30), JNum(45), JBool(TRUE), JStr}}
    \cup {[score |-> JNull, reasoning |-> None]}

\* the ways the try block fails: the call raises, json.loads raises on a
\* reply that is not JSON, .get raises on a JSON value that is no object
Failures == {"raise", "badjson", "nonobject"}

\* str(e)
ErrText(failure) ==
    CASE failure = "raise" -> <<"c", "o", "n", "n">>
      [] failure = "badjson" -> <<"j", "s", "o", "n">>
      [] failure = "nonobject" -> <<"g", "e", "t">>

\* "Evaluation Error: " is written "E:"
ErrPrefix == <<"E", ":">>

success_verdict(item, reply) ==
    [id |-> Get(item, "id"),
     task_type |-> Get(item, "task_type"),
     score |-> reply.score,
     reasoning |-> reply.reasoning,
     status |-> "success"]

error_verdict(item, failure) ==
    [id |-> Get(item, "id"),
     task_type |-> Get(item, "task_type"),
     score |-> JNum(0),
     reasoning |-> Some(ErrPrefix \o ErrText(failure)),
     status |-> "error"]

skipped_verdict(item) ==
    [id |-> Get(item, "id"),
     error |-> <<"n", "o", "t", " ", "f", "o", "u", "n", "d">>,
     status |-> "skipped"]

----------------------------------------------------------------------------
(* main: statistics and report *)

\* r.get('score')
verdict_score(r) == IF "score" \in DOMAIN r THEN r.score ELSE JNull

is_valid(r) == r.status = "success" /\ IsIntOrFloat(verdict_score(r))

RECURSIVE valid_scores(_)
valid_scores(res) ==
    IF res = <<>> THEN <<>>
    ELSE (IF is_valid(Head(res)) THEN <<PyNumber(verdict_score(Head(res)))>>
          ELSE <<>>) \o valid_scores(Tail(res))

RECURSIVE sum(_)
sum(s) == IF s = <<>> THEN 0 ELSE Head(s) + sum(Tail(s))

\* the quotient a / b rounded to the nearest integer, ties to even
RoundHalfEven(a, b) ==
    LET q == a \div b
        r == a % b
    IN IF 2 * r < b THEN q
       ELSE IF 2 * r > b THEN q + 1
       ELSE IF q % 2 = 0 THEN q ELSE q + 1

AvgUnit == 10000

\* round(avg_score, 4), in units of 1/AvgUnit
average_score(res) ==
    LET vs == valid_scores(res)
    IN IF vs # <<>>
       THEN RoundHalfEven(sum(vs) * (AvgUnit \div Scale), Len(vs))
       ELSE 0

NoReport ==
    [written |-> FALSE,
     meta |-> [total_items |-> 0, evaluated_items |-> 0, average_score |-> 0],
     details |-> <<>>]

output_data(dat, res) ==
    [written |-> TRUE,
     meta |-> [total_items |-> Len(dat),
               evaluated_items |-> Len(valid_scores(res)),
               average_score |-> average_score(res)],
     details |-> res]

----------------------------------------------------------------------------
(* Inputs of a run *)

Header(text) == [hdr |-> TRUE, text |-> text]
Text(text) == [hdr |-> FALSE, text |-> text]

FullTemplate == QTok \o <<" ">> \o RTok \o <<" ">> \o MTok

\* a missing prompt file, an empty one, and one with two aliased task types
DriverPromptFiles ==
    {[exists |-> FALSE, lines |-> <<>>],
     [exists |-> TRUE, lines |-> <<>>],
     [exists |-> TRUE, lines |-> <<Header(<<"A", ";", "B">>), Text(FullTemplate)>>]}

Ids == {<<"1">>, <<"2">>}
TaskTypes == {<<"A">>, <<"Z">>}

FieldSets == {{}, {"id"}, {"task_type"}, {"id", "task_type"}}
TextFields == {"question", "reference_answer", "model_answer"}

\* the items of the input array: id and task_type present or not, the three
\* texts fixed
Items ==
    UNION {{[k \in fs \cup TextFields |->
                CASE k = "id" -> i
                  [] k = "task_type" -> t
                  [] k = "question" -> <<"u">>
                  [] k = "reference_answer" -> <<"v">>
                  [] k = "model_answer" -> <<"w">>] :
            i \in (IF "id" \in fs THEN Ids ELSE {<<>>}),
            t \in (IF "task_type" \in fs THEN TaskTypes ELSE {<<>>})} :
           fs \in FieldSets}

SeqsUpTo(S, n) == UNION {[1..k -> S] : k \in 0..n}

InputFiles ==
    {[ok |-> FALSE, items |-> <<>>]}
    \cup {[ok |-> TRUE, items |-> d] : d \in SeqsUpTo(Items, MaxItems)}

----------------------------------------------------------------------------
(* main *)

Init ==
    /\ pc = "start"
    /\ prompt_file \in DriverPromptFiles
    /\ input_file \in InputFiles
    /\ prompts_map = EmptyDict
    /\ data = <<>>
    /\ idx = 1
    /\ results = <<>>
    /\ final_prompt = <<>>
    /\ calls = <<>>
    /\ output_file = NoReport

\* prompts_map = parse_prompt_file(PROMPT_FILE)
LoadPrompts ==
    /\ pc = "start"
    /\ prompt_file.exists
    /\ prompts_map' = parse_prompt_file(prompt_file.lines)
    /\ pc' = "load_data"
    /\ UNCHANGED <<prompt_file, input_file, data, idx, results, final_prompt,
                   calls, output_file>>

\* the except branch swallowing the error and going on without templates
LoadPromptsFail_goes_on ==
    /\ pc = "start"
    /\ ~prompt_file.exists
    /\ pc' = "load_data"
    /\ UNCHANGED <<prompt_file, input_file, prompts_map, data, idx, results,
                   final_prompt, calls, output_file>>

\* parse_prompt_file raises FileNotFoundError; main prints and returns
LoadPromptsFail ==
    /\ pc = "start"
    /\ ~prompt_file.exists
    /\ pc' = "aborted"
    /\ UNCHANGED <<prompt_file, input_file, prompts_map, data, idx, results,
                   final_prompt, calls, output_file>>

\* data = json.load(f); results = []
LoadData ==
    /\ pc = "load_data"
    /\ input_file.ok
    /\ data' = input_file.items
    /\ results' = <<>>
    /\ idx' = 1
    /\ pc' = "loop"
    /\ UNCHANGED <<prompt_file, input_file, prompts_map, final_prompt, calls,
                   output_file>>

\* open or json.load raises: main ends with the exception
LoadDataFail ==
    /\ pc = "load_data"
    /\ ~input_file.ok
    /\ pc' = "crashed"
    /\ UNCHANGED <<prompt_file, input_file, prompts_map, data, idx, results,
                   final_prompt, calls, output_file>>

\* task_type not in prompts_map
not_in_prompts_map(item) ==
    LET task_type == Get(item, "task_type")
    IN ~(task_type.some /\ task_type.v \in DOMAIN prompts_map)

\* the skip branch reached only after a call was issued for the item
LoopSkip_calls ==
    /\ pc = "loop"
    /\ idx <= Len(data)
    /\ not_in_prompts_map(data[idx])
    /\ results' = Append(results, skipped_verdict(data[idx]))
    /\ calls' = Append(calls, [item |-> idx, outcome |-> "raise"])
    /\ idx' = idx + 1
    /\ UNCHANGED <<pc, prompt_file, input_file, prompts_map, data,
                   final_prompt, output_file>>

\* the skip branch going on without a verdict
LoopSkip_drops ==
    /\ pc = "loop"
    /\ idx <= Len(data)
    /\ not_in_prompts_map(data[idx])
    /\ idx' = idx + 1
    /\ UNCHANGED <<pc, prompt_file, input_file, prompts_map, data, results,
                   final_prompt, calls, output_file>>

\* the skip branch of the loop
LoopSkip ==
    /\ pc = "loop"
    /\ idx <= Len(data)
    /\ not_in_prompts_map(data[idx])
    /\ results' = Append(results, skipped_verdict(data[idx]))
    /\ idx' = idx + 1
    /\ UNCHANGED <<pc, prompt_file, input_file, prompts_map, data,
                   final_prompt, calls, output_file>>

\* the outcome of the call being awaited is logged
SetOutcome(o) == [calls EXCEPT ![Len(calls)].outcome = o]

\* evaluate_single_item up to the issue of the remote call
CallJudge ==
    /\ pc = "loop"
    /\ idx <= Len(data)
    /\ ~not_in_prompts_map(data[idx])
    /\ final_prompt' = fill_template(data[idx], prompts_map[data[idx]["task_type"]])
    /\ calls' = Append(calls, [item |-> idx, outcome |-> "pending"])
    /\ pc' = "awaiting"
    /\ UNCHANGED <<prompt_file, input_file, prompts_map, data, idx, results,
                   output_file>>

\* the call returns a JSON object: the verdict is returned and appended
JudgeReplies ==
    /\ pc = "awaiting"
    /\ \E reply \in ObjectReplies :
           results' = Append(results, success_verdict(data[idx], reply))
    /\ calls' = SetOutcome("object")
    /\ idx' = idx + 1
    /\ pc' = "loop"
    /\ UNCHANGED <<prompt_file, input_file, prompts_map, data, final_prompt,
                   output_file>>

\* the except branch letting the exception reach main
JudgeFails_propagates ==
    /\ pc = "awaiting"
    /\ \E failure \in Failures : calls' = SetOutcome(failure)
    /\ pc' = "crashed"
    /\ UNCHANGED <<prompt_file, input_file, prompts_map, data, idx, results,
                   final_prompt, output_file>>

\* the except branch trying the same item again
JudgeFails_retries ==
    /\ pc = "awaiting"
    /\ \E failure \in Failures : calls' = SetOutcome(failure)
    /\ pc' = "loop"
    /\ UNCHANGED <<prompt_file, input_file, prompts_map, data, idx, results,
                   final_prompt, output_file>>

\* the try block raises: the error verdict is returned and appended
JudgeFails ==
    /\ pc = "awaiting"
    /\ \E failure \in Failures :
           /\ results' = Append(results, error_verdict(data[idx], failure))
           /\ calls' = SetOutcome(failure)
    /\ idx' = idx + 1
    /\ pc' = "loop"
    /\ UNCHANGED <<prompt_file, input_file, prompts_map, data, final_prompt,
                   output_file>>

\* the loop is over: statistics, output_data, json.dump
WriteReport ==
    /\ pc = "loop"
    /\ idx > Len(data)
    /\ output_file' = output_data(data, results)
    /\ pc' = "done"
    /\ UNCHANGED <<prompt_file, input_file, prompts_map, data, idx, results,
                   final_prompt, calls>>

Next ==
    \/ LoadPrompts
    \/ LoadPromptsFail
    \/ LoadData
    \/ LoadDataFail
    \/ LoopSkip
    \/ CallJudge
    \/ JudgeReplies
    \/ JudgeFails
    \/ WriteReport

Spec == Init /\ [][Next]_vars

----------------------------------------------------------------------------
(* parse_prompt_file on its own: the prompt files of up to MaxLines lines *)

HeaderTexts ==
    {<<"A">>,
     <<"A", ",", "B">>,
     <<"B", ";", " ", "C", " ">>,
     <<"C", ",", ",", "A">>}

BodyTexts == {<<"x">>, <<"y">>, <<" ">>}

LineSet == {Header(h) : h \in HeaderTexts} \cup {Text(b) : b \in BodyTexts}

ParseFiles ==
    {[exists |-> FALSE, lines |-> <<>>]}
    \cup {[exists |-> TRUE, lines |-> ls] : ls \in SeqsUpTo(LineSet, MaxLines)}

InitParse ==
    /\ pc = "start"
    /\ prompt_file \in ParseFiles
    /\ input_file = [ok |-> TRUE, items |-> <<>>]
    /\ prompts_map = EmptyDict
    /\ data = <<>>
    /\ idx = 1
    /\ results = <<>>
    /\ final_prompt = <<>>
    /\ calls = <<>>
    /\ output_file = NoReport

NextParse ==
    \/ LoadPrompts
    \/ LoadPromptsFail

SpecParse == InitParse /\ [][NextParse]_vars

----------------------------------------------------------------------------
(* The rendering of evaluate_single_item on its own: one item of task type *)
(* A, its three texts drawn from RenderTexts, and a template made of up to *)
(* MaxPieces pieces that contains the three placeholders.                  *)

Pieces == {QTok, RTok, MTok, <<"a">>, <<"{">> \o QTok \o <<"}">>}

RECURSIVE Concat(_)
Concat(ss) == IF ss = <<>> THEN <<>> ELSE Head(ss) \o Concat(Tail(ss))

HasPlaceholders(tpl) == \A tok \in Tokens : IsSubstr(tok, tpl)

Templates ==
    {tpl \in {Concat(ps) : ps \in SeqsUpTo(Pieces, MaxPieces)} :
        HasPlaceholders(tpl)}

RenderTexts == {<<>>, <<"a">>, <<"m">>, MTok, QTok}

RenderItems ==
    {[id |-> <<"1">>, task_type |-> <<"A">>,
      question |-> q, reference_answer |-> r, model_answer |-> m] :
        q \in RenderTexts, r \in RenderTexts, m \in RenderTexts}

InitRender ==
    /\ pc = "start"
    /\ \E tpl \in Templates :
           prompt_file = [exists |-> TRUE,
                          lines |-> <<Header(<<"A">>), Text(tpl)>>]
    /\ \E item \in RenderItems :
           input_file = [ok |-> TRUE, items |-> <<item>>]
    /\ prompts_map = EmptyDict
    /\ data = <<>>
    /\ idx = 1
    /\ results = <<>>
    /\ final_prompt = <<>>
    /\ calls = <<>>
    /\ output_file = NoReport

NextRender ==
    \/ LoadPrompts
    \/ LoadData
    \/ CallJudge

SpecRender == InitRender /\ [][NextRender]_vars

----------------------------------------------------------------------------
(* Properties *)

Statuses(res) == {res[i].status : i \in 1..Len(res)}

\* the task type of the item is a key of the template map
HasTemplate(item) ==
    "task_type" \in DOMAIN item /\ item["task_type"] \in DOMAIN prompts_map

CalledItems == {calls[k].item : k \in 1..Len(calls)}

\* C1: when the report is written, details has one verdict per input item,
\* in input order: its length is the length of data and meta.total_items,
\* and the i-th verdict carries the id of the i-th item.
C1_OneVerdictPerItem ==
    pc = "done" =>
        /\ output_file.written
        /\ Len(output_file.details) = Len(data)
        /\ output_file.meta.total_items = Len(data)
        /\ \A i \in 1..Len(data) :
               /\ "id" \in DOMAIN output_file.details[i]
               /\ output_file.details[i].id = Get(data[i], "id")

C1_Witness ==
    /\ pc = "done"
    /\ Len(data) = 3
    /\ Statuses(output_file.details) = {"success", "error", "skipped"}
    /\ Get(data[1], "id") # Get(data[2], "id")

\* C2: every verdict in results, whatever its status, has an id field and
\* a task_type field, equal to the id and task_type of its item.
C2_IdAndTaskTypeCarried ==
    \A i \in 1..Len(results) :
        /\ "id" \in DOMAIN results[i]
        /\ "task_type" \in DOMAIN results[i]
        /\ results[i].id = Get(data[i], "id")
        /\ results[i].task_type = Get(data[i], "task_type")

\* C3: an item whose task_type is no key of the template map (or that has
\* no task_type) gets a skipped verdict with an error field and no remote
\* call; at the end of a run the number of calls is the number of items
\* whose task_type is a key of the map.
C3_SkippedWithoutCall ==
    /\ \A i \in 1..Len(results) :
           ~HasTemplate(data[i]) =>
               /\ results[i].status = "skipped"
               /\ "error" \in DOMAIN results[i]
               /\ i \notin CalledItems
    /\ pc = "done" =>
           Len(calls) = Cardinality({i \in 1..Len(data) : HasTemplate(data[i])})

C3_Witness ==
    /\ pc = "done"
    /\ prompts_map # EmptyDict
    /\ \E i, j, k \in 1..Len(data) :
           /\ "task_type" \notin DOMAIN data[i]
           /\ "task_type" \in DOMAIN data[j] /\ ~HasTemplate(data[j])
           /\ HasTemplate(data[k])
    /\ Len(calls) = 1

\* C4: a call that raises, or whose reply is not JSON or not a JSON object,
\* gives an error verdict with score 0 and a non-empty reasoning; the
\* exception never reaches main, which goes on with the remaining items and
\* ends with a verdict for every item.
C4_FailureBecomesErrorVerdict ==
    /\ \A k \in 1..Len(calls) :
           calls[k].outcome \in Failures =>
               /\ calls[k].item <= Len(results)
               /\ results[calls[k].item].status = "error"
               /\ results[calls[k].item].score = JNum(0)
               /\ results[calls[k].item].reasoning.some
               /\ results[calls[k].item].reasoning.v # <<>>
    /\ calls # <<>> => pc \in {"loop", "awaiting", "done"}
    /\ pc = "done" => Len(results) = Len(data)

C4_Witness ==
    /\ pc = "done"
    /\ Len(calls) = 3
    /\ {calls[k].outcome : k \in 1..2} \subseteq Failures
    /\ calls[1].outcome # calls[2].outcome
    /\ calls[3].outcome = "object"
    /\ results[3].status = "success"

\* a JSON number: an int or a float, not a boolean
IsJsonNumber(x) == x.t = "num"

NumericSuccesses(res) ==
    {i \in 1..Len(res) :
        res[i].status = "success" /\ IsJsonNumber(res[i].score)}

RECURSIVE SumOver(_, _)
SumOver(res, I) ==
    IF I = {} THEN 0
    ELSE LET i == CHOOSE i \in I : TRUE
         IN res[i].score.v + SumOver(res, I \ {i})

\* C5: in the report, evaluated_items is the number of success verdicts
\* with a numeric score and average_score is their mean rounded to four
\* decimals; no other verdict counts in the numerator or the denominator.
C5_AverageOverNumericSuccesses ==
    pc = "done" =>
        LET I == NumericSuccesses(results) IN
        /\ output_file.meta.evaluated_items = Cardinality(I)
        /\ output_file.meta.average_score =
               IF I = {} THEN 0
               ELSE RoundHalfEven(SumOver(results, I) * (AvgUnit \div Scale),
                                  Cardinality(I))

\* the names a header lists: the stripped texts between separators
NamesOf(h) ==
    {strip(SubSeq(h, a, b)) : <<a, b>> \in
        {<<a, b>> \in (1..(Len(h) + 1)) \X (0..Len(h)) :
            /\ b >= a - 1
            /\ \A k \in a..b : h[k] \notin Seps
            /\ a = 1 \/ h[a - 1] \in Seps
            /\ b = Len(h) \/ h[b + 1] \in Seps}}

HeaderLines(lines) == {k \in 1..Len(lines) : lines[k].hdr}

\* the text of the lines below header k, down to the next header
RECURSIVE BodyBelow(_, _)
BodyBelow(lines, k) ==
    IF k + 1 > Len(lines) \/ lines[k + 1].hdr THEN <<>>
    ELSE lines[k + 1].text \o <<NL>> \o BodyBelow(lines, k + 1)

ListedLater(lines, k, name) ==
    \E j \in HeaderLines(lines) : j > k /\ name \in NamesOf(lines[j].text)

\* C6 as stated: every name of every header is a key, and two names of one
\* header map to the same template, also when one of them appears in
\* another header of the file.
C6_AliasesAlwaysIdentical ==
    pc = "load_data" =>
        \A k \in HeaderLines(prompt_file.lines) :
            \A a, b \in NamesOf(prompt_file.lines[k].text) :
                /\ a \in DOMAIN prompts_map
                /\ b \in DOMAIN prompts_map
                /\ prompts_map[a] = prompts_map[b]

\* C6 amended: every name of every header is a key and maps to the stripped
\* body of the last header that lists it; so two names of one header map to
\* the same template when neither is listed by a later header.
C6_LastHeaderWins ==
    pc = "load_data" =>
        \A k \in HeaderLines(prompt_file.lines) :
            \A a, b \in NamesOf(prompt_file.lines[k].text) :
                /\ a \in DOMAIN prompts_map
                /\ ~ListedLater(prompt_file.lines, k, a) =>
                       prompts_map[a] = strip(BodyBelow(prompt_file.lines, k))
                /\ (~ListedLater(prompt_file.lines, k, a)
                    /\ ~ListedLater(prompt_file.lines, k, b)) =>
                       (b \in DOMAIN prompts_map /\ prompts_map[a] = prompts_map[b])

C6_Witness ==
    /\ pc = "load_data"
    /\ \E j, k \in HeaderLines(prompt_file.lines) :
           /\ j < k
           /\ \E a, b \in NamesOf(prompt_file.lines[k].text) :
                  /\ a # b
                  /\ a \in NamesOf(prompt_file.lines[j].text)
                  /\ ~ListedLater(prompt_file.lines, k, a)
                  /\ ~ListedLater(prompt_file.lines, k, b)
                  /\ prompts_map[a] = prompts_map[b]
                  /\ prompts_map[a] # <<>>
                  /\ strip(BodyBelow(prompt_file.lines, j)) # prompts_map[a]

TextsOf(item) == {GetOrEmpty(item, f) : f \in TextFields}

\* C7 as stated: for a template with the three placeholders and any item
\* texts, the rendered prompt contains the three texts and no placeholder.
C7_RenderedForAnyTexts ==
    pc = "awaiting" =>
        LET item == data[idx]
            tpl == prompts_map[item["task_type"]]
        IN HasPlaceholders(tpl) =>
               /\ \A t \in TextsOf(item) : IsSubstr(t, final_prompt)
               /\ \A tok \in Tokens : ~IsSubstr(tok, final_prompt)

Braces == {"{", "}"}
BraceFree(s) == \A k \in 1..Len(s) : s[k] \notin Braces

\* the template with its placeholders taken out
WithoutPlaceholders(tpl) ==
    replace(replace(replace(tpl, QTok, <<>>), RTok, <<>>), MTok, <<>>)

\* C7 amended: for a template with the three placeholders and no brace
\* outside them, and item texts without braces, the rendered prompt contains
\* the three texts and no placeholder.
C7_RenderedForBraceFreeTexts ==
    pc = "awaiting" =>
        LET item == data[idx]
            tpl == prompts_map[item["task_type"]]
        IN (/\ HasPlaceholders(tpl)
            /\ BraceFree(WithoutPlaceholders(tpl))
            /\ \A t \in TextsOf(item) : BraceFree(t)) =>
               /\ \A t \in TextsOf(item) : IsSubstr(t, final_prompt)
               /\ \A tok \in Tokens : ~IsSubstr(tok, final_prompt)

C7_Witness ==
    /\ pc = "awaiting"
    /\ HasPlaceholders(prompts_map[<<"A">>])
    /\ BraceFree(WithoutPlaceholders(prompts_map[<<"A">>]))
    /\ Len(prompts_map[<<"A">>]) > 9
    /\ data[idx]["question"] = <<"m">>
    /\ data[idx]["reference_answer"] = <<>>
    /\ data[idx]["model_answer"] = <<"a">>
    /\ final_prompt # <<>>

\* C8: when the prompt file is missing the run ends with no item processed:
\* no call, no verdict, no report.
C8_AbortWithoutPromptFile ==
    ~prompt_file.exists =>
        /\ pc \in {"start", "aborted"}
        /\ calls = <<>>
        /\ results = <<>>
        /\ data = <<>>
        /\ ~output_file.written

C8_Witness ==
    /\ pc = "aborted"
    /\ ~prompt_file.exists
    /\ Len(input_file.items) = 3

TerminalStatuses == {"success", "error", "skipped"}

\* what holds of the loop in every state
C9_Order ==
    /\ pc \in {"loop", "awaiting"} => Len(results) = idx - 1
    /\ Statuses(results) \subseteq TerminalStatuses
    /\ \A k \in 1..Len(calls) :
           /\ k > 1 => calls[k - 1].item < calls[k].item
           /\ calls[k].outcome = "pending" =>
                  /\ k = Len(calls)
                  /\ pc = "awaiting"
                  /\ calls[k].item = idx
           /\ pc = "loop" => calls[k].item < idx

\* C9: an item gets one verdict, which never changes afterwards; at most one
\* call is issued per item, calls are issued in input order, at most one is
\* outstanding, and the call and the verdict of an item are over before the
\* next item is looked at.
C9_OneAtATime ==
    [][/\ C9_Order'
       /\ Len(results') >= Len(results)
       /\ Len(results') <= Len(results) + 1
       /\ \A i \in 1..Len(results) : results'[i] = results[i]
       /\ Len(calls') >= Len(calls)
       /\ Len(calls') <= Len(calls) + 1
       /\ \A k \in 1..Len(calls) : calls'[k].item = calls[k].item]_vars

C9_Witness ==
    /\ pc = "awaiting"
    /\ idx = 3
    /\ Len(calls) = 2
    /\ calls[1].outcome \in Failures
    /\ results[2].status = "skipped"

\* C10: when no verdict is a success with a numeric score, the run still
\* writes a report, with evaluated_items = 0 and average_score = 0.
C10_ZeroWithoutNumericSuccess ==
    (pc = "done" /\ NumericSuccesses(results) = {}) =>
        /\ output_file.written
        /\ output_file.meta.evaluated_items = 0
        /\ output_file.meta.average_score = 0

====
